---- MODULE Spec2Model ----
(***************************************************************************)
(* Model of the lexical primitives of include/peg.h: the UTF-8 codec       *)
(* (codepoint_length, codepoint_count, encode_codepoint, decode_codepoint, *)
(* decode), the escape resolver (resolve_escape_sequence) and the prefix   *)
(* Trie.  Bytes are naturals 0..255, strings are sequences of bytes.       *)
(***************************************************************************)
EXTENDS Integers, Sequences, FiniteSets, TLC

VARIABLES
    \* Trie: constructor argument, number of items inserted, prefix map,
    \* last queried text and the value match() returned for it
    items, nitems, dic_, text, match_len,
    \* codepoint_count: buffer, loop index, counter, position
    cc_s8, cc_i, count, cc_pc,
    \* encode_codepoint / decode_codepoint calls: argument, byte buffer,
    \* decode result, which call was made last
    cp, buff, dec, codec_op,
    \* decode: buffer, scan index, output, position
    d_s8, d_i, out, d_pc,
    \* resolve_escape_sequence: input, scan index, output, position
    s, i, r, pc

vars == << items, nitems, dic_, text, match_len,
           cc_s8, cc_i, count, cc_pc,
           cp, buff, dec, codec_op,
           d_s8, d_i, out, d_pc,
           s, i, r, pc >>

trieVars   == << items, nitems, dic_, text, match_len >>
countVars  == << cc_s8, cc_i, count, cc_pc >>
codecVars  == << cp, buff, dec, codec_op >>
decodeVars == << d_s8, d_i, out, d_pc >>
escapeVars == << s, i, r, pc >>

----------------------------------------------------------------------------
(* Bounds of the model *)

MaxItems   == 3    \* patterns given to the Trie constructor
MaxPatLen  == 2    \* length of a pattern
MaxTextLen == 3    \* length of a text handed to Trie::match
MaxCountLen == 3   \* length of a codepoint_count buffer
MaxCount   == 6    \* cap on the codepoint_count counter
MaxBufLen  == 4    \* length of a decode_codepoint buffer
MaxDecLen  == 4    \* length of a decode buffer
MaxEscLen  == 4    \* length of a resolve_escape_sequence input
MaxCp      == 1114200  \* largest argument of the contiguous encode_codepoint range

----------------------------------------------------------------------------
(* Sequences of at most n elements of S *)

SeqsUpTo(S, n) == UNION { [1..k -> S] : k \in 0..n }

(* Bit operations of C++ on non-negative integers.  Two identities keep    *)
(* the common cases short: a & (2^k - 1) = a mod 2^k, for a byte a          *)
(* a & (256 - 2^k) = a - a mod 2^k, and a | b = a + b when b is below 2^k  *)
(* and a is a multiple of 2^k.                                             *)

RECURSIVE BitAndBits(_, _)
BitAndBits(a, b) ==
    IF a = 0 \/ b = 0 THEN 0
    ELSE (a % 2) * (b % 2) + 2 * BitAndBits(a \div 2, b \div 2)

BitAnd(a, b) ==
    IF b \in { 7, 15, 31, 63, 127 } THEN a % (b + 1)
    ELSE IF b \in { 128, 192, 224, 240, 248 } /\ a < 256 THEN a - (a % (256 - b))
    ELSE BitAndBits(a, b)

RECURSIVE BitOrBits(_, _)
BitOrBits(a, b) ==
    IF a = 0 THEN b
    ELSE IF b = 0 THEN a
    ELSE (IF (a % 2) + (b % 2) > 0 THEN 1 ELSE 0) + 2 * BitOrBits(a \div 2, b \div 2)

BitOr(a, b) ==
    IF \E k \in { 8, 16, 64, 4096, 262144 } : b < k /\ a % k = 0
    THEN a + b
    ELSE BitOrBits(a, b)

Shl(a, k) == a * (2 ^ k)
Shr(a, k) == a \div (2 ^ k)

(* static_cast<char>: the low 8 bits *)
ToChar(v) == v % 256

----------------------------------------------------------------------------
(* UTF-8 functions *)

(* codepoint_length(s8, l): s8 is the buffer from the current position on, *)
(* l the number of bytes available.                                        *)
codepoint_length(s8, l) ==
    IF l # 0
    THEN LET b == s8[1] IN
         IF BitAnd(b, 128) = 0 THEN 1
         ELSE IF BitAnd(b, 224) = 192 /\ l >= 2 THEN 2
         ELSE IF BitAnd(b, 240) = 224 /\ l >= 3 THEN 3
         ELSE IF BitAnd(b, 248) = 240 /\ l >= 4 THEN 4
         ELSE 0
    ELSE 0

(* A plausible slip: the surrogate range is not rejected. *)
encode_codepoint_nosurr(c) ==
    IF c < 128 THEN << ToChar(BitAnd(c, 127)) >>
    ELSE IF c < 2048 THEN
        << ToChar(BitOr(192, BitAnd(Shr(c, 6), 31))),
           ToChar(BitOr(128, BitAnd(c, 63))) >>
    ELSE IF c < 65536 THEN
        << ToChar(BitOr(224, BitAnd(Shr(c, 12), 15))),
           ToChar(BitOr(128, BitAnd(Shr(c, 6), 63))),
           ToChar(BitOr(128, BitAnd(c, 63))) >>
    ELSE IF c < 1114112 THEN
        << ToChar(BitOr(240, BitAnd(Shr(c, 18), 7))),
           ToChar(BitOr(128, BitAnd(Shr(c, 12), 63))),
           ToChar(BitOr(128, BitAnd(Shr(c, 6), 63))),
           ToChar(BitOr(128, BitAnd(c, 63))) >>
    ELSE << >>

(* encode_codepoint(cp): the bytes written to buff, as many as the         *)
(* returned length (the std::string overload returns exactly these).       *)
encode_codepoint(c) ==
    IF c < 128 THEN << ToChar(BitAnd(c, 127)) >>
    ELSE IF c < 2048 THEN
        << ToChar(BitOr(192, BitAnd(Shr(c, 6), 31))),
           ToChar(BitOr(128, BitAnd(c, 63))) >>
    ELSE IF c < 55296 THEN
        << ToChar(BitOr(224, BitAnd(Shr(c, 12), 15))),
           ToChar(BitOr(128, BitAnd(Shr(c, 6), 63))),
           ToChar(BitOr(128, BitAnd(c, 63))) >>
    ELSE IF c < 57344 THEN << >>
    ELSE IF c < 65536 THEN
        << ToChar(BitOr(224, BitAnd(Shr(c, 12), 15))),
           ToChar(BitOr(128, BitAnd(Shr(c, 6), 63))),
           ToChar(BitOr(128, BitAnd(c, 63))) >>
    ELSE IF c < 1114112 THEN
        << ToChar(BitOr(240, BitAnd(Shr(c, 18), 7))),
           ToChar(BitOr(128, BitAnd(Shr(c, 12), 63))),
           ToChar(BitOr(128, BitAnd(Shr(c, 6), 63))),
           ToChar(BitOr(128, BitAnd(c, 63))) >>
    ELSE << >>

(* Result of the four-argument decode_codepoint: the returned flag and the *)
(* two out-parameters; on failure the out-parameters are not written.      *)
DecFail == [ok |-> FALSE, bytes |-> 0, cp |-> 0]
DecOk(n, c) == [ok |-> TRUE, bytes |-> n, cp |-> c]

(* A plausible slip: the lead byte of a 3-byte sequence is shifted by 11   *)
(* instead of 12.                                                          *)
decode_codepoint_shift(s8, l) ==
    IF l # 0
    THEN LET b == s8[1] IN
         IF BitAnd(b, 128) = 0 THEN DecOk(1, b)
         ELSE IF BitAnd(b, 224) = 192 THEN
             IF l >= 2
             THEN DecOk(2, BitOr(Shl(BitAnd(s8[1], 31), 6), BitAnd(s8[2], 63)))
             ELSE DecFail
         ELSE IF BitAnd(b, 240) = 224 THEN
             IF l >= 3
             THEN DecOk(3, BitOr(BitOr(Shl(BitAnd(s8[1], 15), 11),
                                       Shl(BitAnd(s8[2], 63), 6)),
                                 BitAnd(s8[3], 63)))
             ELSE DecFail
         ELSE IF BitAnd(b, 248) = 240 THEN
             IF l >= 4
             THEN DecOk(4, BitOr(BitOr(BitOr(Shl(BitAnd(s8[1], 7), 18),
                                             Shl(BitAnd(s8[2], 63), 12)),
                                       Shl(BitAnd(s8[3], 63), 6)),
                                 BitAnd(s8[4], 63)))
             ELSE DecFail
         ELSE DecFail
    ELSE DecFail

(* A plausible slip: the 2-byte lead is tested with the mask 0xC0 instead  *)
(* of 0xE0.                                                                *)
decode_codepoint_lead(s8, l) ==
    IF l # 0
    THEN LET b == s8[1] IN
         IF BitAnd(b, 128) = 0 THEN DecOk(1, b)
         ELSE IF BitAnd(b, 192) = 192 THEN
             IF l >= 2
             THEN DecOk(2, BitOr(Shl(BitAnd(s8[1], 31), 6), BitAnd(s8[2], 63)))
             ELSE DecFail
         ELSE IF BitAnd(b, 240) = 224 THEN
             IF l >= 3
             THEN DecOk(3, BitOr(BitOr(Shl(BitAnd(s8[1], 15), 12),
                                       Shl(BitAnd(s8[2], 63), 6)),
                                 BitAnd(s8[3], 63)))
             ELSE DecFail
         ELSE IF BitAnd(b, 248) = 240 THEN
             IF l >= 4
             THEN DecOk(4, BitOr(BitOr(BitOr(Shl(BitAnd(s8[1], 7), 18),
                                             Shl(BitAnd(s8[2], 63), 12)),
                                       Shl(BitAnd(s8[3], 63), 6)),
                                 BitAnd(s8[4], 63)))
             ELSE DecFail
         ELSE DecFail
    ELSE DecFail

(* decode_codepoint(s8, l, bytes, cp) *)
decode_codepoint(s8, l) ==
    IF l # 0
    THEN LET b == s8[1] IN
         IF BitAnd(b, 128) = 0 THEN DecOk(1, b)
         ELSE IF BitAnd(b, 224) = 192 THEN
             IF l >= 2
             THEN DecOk(2, BitOr(Shl(BitAnd(s8[1], 31), 6), BitAnd(s8[2], 63)))
             ELSE DecFail
         ELSE IF BitAnd(b, 240) = 224 THEN
             IF l >= 3
             THEN DecOk(3, BitOr(BitOr(Shl(BitAnd(s8[1], 15), 12),
                                       Shl(BitAnd(s8[2], 63), 6)),
                                 BitAnd(s8[3], 63)))
             ELSE DecFail
         ELSE IF BitAnd(b, 248) = 240 THEN
             IF l >= 4
             THEN DecOk(4, BitOr(BitOr(BitOr(Shl(BitAnd(s8[1], 7), 18),
                                             Shl(BitAnd(s8[2], 63), 12)),
                                       Shl(BitAnd(s8[3], 63), 6)),
                                 BitAnd(s8[4], 63)))
             ELSE DecFail
         ELSE DecFail
    ELSE DecFail

(* decode_codepoint(s8, l): cp starts as 0 and is returned as the callee   *)
(* left it.                                                                *)
decode_codepoint_cp(s8, l) ==
    LET d == decode_codepoint(s8, l) IN IF d.ok THEN d.cp ELSE 0

----------------------------------------------------------------------------
(* Idle values of the components a specification does not exercise *)

TrieIdle ==
    /\ items = << >> /\ nitems = 0 /\ dic_ = << >>
    /\ text = << >> /\ match_len = -1
CountIdle  == cc_s8 = << >> /\ cc_i = 0 /\ count = 0 /\ cc_pc = "idle"
CodecIdle  == cp = 0 /\ buff = << >> /\ dec = DecFail /\ codec_op = "none"
DecodeIdle == d_s8 = << >> /\ d_i = 0 /\ out = << >> /\ d_pc = "idle"
EscapeIdle == s = << >> /\ i = 0 /\ r = << >> /\ pc = "idle"

----------------------------------------------------------------------------
(* Calls of the codec's single-codepoint functions *)

(* Arguments of encode_codepoint: every value up to beyond 0x110000, and   *)
(* two larger values of char32_t.                                          *)
CpLow  == 0..MaxCp
CpHigh == { 2097151, 2147483647 }

(* Sampled bytes of decode_codepoint buffers: ASCII, continuation bytes,   *)
(* lead bytes of every length (overlong, surrogate and out-of-range leads  *)
(* included) and an invalid lead.                                          *)
CodecBytes == { 65, 128, 160, 191, 192, 194, 223, 224, 237, 239, 240, 244, 247, 248 }
CodecBuffers == SeqsUpTo(CodecBytes, MaxBufLen)

InitCodec ==
    /\ CodecIdle
    /\ TrieIdle /\ CountIdle /\ DecodeIdle /\ EscapeIdle

EncodeCall(c) ==
    /\ cp' = c
    /\ buff' = encode_codepoint(c)
    /\ dec' = DecFail
    /\ codec_op' = "encode"
    /\ UNCHANGED << trieVars, countVars, decodeVars, escapeVars >>

(* encode_codepoint(c) *)
Encode ==
    /\ codec_op = "none"
    /\ \/ \E c \in CpLow : EncodeCall(c)
       \/ \E c \in CpHigh : EncodeCall(c)

RoundTripCall(c) ==
    /\ cp' = c
    /\ buff' = encode_codepoint(c)
    /\ dec' = decode_codepoint(buff', Len(buff'))
    /\ codec_op' = "roundtrip"
    /\ UNCHANGED << trieVars, countVars, decodeVars, escapeVars >>

(* decode_codepoint on the bytes encode_codepoint(c) produced, with their  *)
(* number as the length                                                    *)
RoundTrip ==
    /\ codec_op = "none"
    /\ \/ \E c \in CpLow : RoundTripCall(c)
       \/ \E c \in CpHigh : RoundTripCall(c)

(* decode_codepoint on an arbitrary buffer *)
DecodeBuffer ==
    /\ codec_op = "none"
    /\ \E b \in CodecBuffers :
        /\ buff' = b
        /\ dec' = decode_codepoint(b, Len(b))
        /\ cp' = 0
        /\ codec_op' = "decode"
        /\ UNCHANGED << trieVars, countVars, decodeVars, escapeVars >>

(* encode_codepoint on its own *)
NextEncode == Encode

SpecEncode == InitCodec /\ [][NextEncode]_vars

(* encode_codepoint followed by decode_codepoint *)
NextRoundTrip == RoundTrip

SpecRoundTrip == InitCodec /\ [][NextRoundTrip]_vars

(* decode_codepoint on arbitrary buffers *)
NextDecodeCodepoint == DecodeBuffer

SpecDecodeCodepoint == InitCodec /\ [][NextDecodeCodepoint]_vars

IsCodepoint(c) == c >= 0 /\ c <= 1114111 /\ ~(c >= 55296 /\ c <= 57343)

(* Byte count predicted by the boundary table *)
TableLen(c) ==
    IF c < 128 THEN 1 ELSE IF c < 2048 THEN 2 ELSE IF c < 65536 THEN 3 ELSE 4

(* C3: for every scalar value v in [0, 0x10FFFF] outside the surrogates,    *)
(* decode_codepoint on the bytes of encode_codepoint(v) succeeds and        *)
(* returns (v, len) with len the number of bytes encode_codepoint produced. *)
C3_RoundTrip ==
    (codec_op = "roundtrip" /\ IsCodepoint(cp)) =>
        /\ dec.ok
        /\ dec.cp = cp
        /\ dec.bytes = Len(buff)
        /\ dec.bytes = TableLen(cp)

C3_Witness ==
    /\ codec_op = "roundtrip" /\ cp = 8364
    /\ dec = DecOk(3, 8364) /\ buff = << 226, 130, 172 >>

(* C5: encode_codepoint returns an empty result exactly for the codepoints  *)
(* in [0xD800, 0xE000) and those >= 0x110000; otherwise 1 byte below 0x80,  *)
(* 2 bytes below 0x800, 3 bytes below 0x10000 and 4 bytes below 0x110000.   *)
C5_EncodeLength ==
    codec_op = "encode" =>
        /\ (Len(buff) = 0) <=> ((cp >= 55296 /\ cp < 57344) \/ cp >= 1114112)
        /\ Len(buff) # 0 =>
              /\ cp < 128 => Len(buff) = 1
              /\ (cp >= 128 /\ cp < 2048) => Len(buff) = 2
              /\ (cp >= 2048 /\ cp < 65536) => Len(buff) = 3
              /\ (cp >= 65536 /\ cp < 1114112) => Len(buff) = 4

C5_Witness ==
    /\ codec_op = "encode" /\ cp = 55296 /\ buff = << >>

(* Bytes matching 10xxxxxx *)
IsContinuation(b) == b >= 128 /\ b <= 191

(* Smallest codepoint whose encoding takes n bytes *)
MinCp(n) == IF n = 1 THEN 0 ELSE IF n = 2 THEN 128 ELSE IF n = 3 THEN 2048 ELSE 65536

(* C6 as stated: whenever decode_codepoint succeeds with (cp, n), cp is a   *)
(* Codepoint of the data model and encode_codepoint(cp) equals the first n  *)
(* bytes of the buffer.                                                     *)
C6_DecodeIsInverse ==
    (codec_op = "decode" /\ dec.ok) =>
        /\ IsCodepoint(dec.cp)
        /\ encode_codepoint(dec.cp) = SubSeq(buff, 1, dec.bytes)

(* C6 amended: whenever decode_codepoint succeeds with (cp, n), n is in     *)
(* 1..4 and at most the buffer length, cp is in [0, 0x1FFFFF], and          *)
(* encode_codepoint(cp) equals the first n bytes of the buffer exactly when *)
(* those bytes are a well-formed shortest-form encoding: every byte after   *)
(* the lead is a continuation byte, cp is a Codepoint of the data model and *)
(* cp is not below the smallest codepoint that needs n bytes.               *)
C6_DecodeInverseOnWellFormed ==
    (codec_op = "decode" /\ dec.ok) =>
        /\ dec.bytes \in 1..4 /\ dec.bytes <= Len(buff)
        /\ dec.cp \in 0..2097151
        /\ (encode_codepoint(dec.cp) = SubSeq(buff, 1, dec.bytes))
             <=> /\ \A k \in 2..dec.bytes : IsContinuation(buff[k])
                 /\ IsCodepoint(dec.cp)
                 /\ dec.cp >= MinCp(dec.bytes)

C6_Witness ==
    /\ codec_op = "decode" /\ buff = << 237, 160, 128 >>
    /\ dec = DecOk(3, 55296) /\ encode_codepoint(dec.cp) = << >>

----------------------------------------------------------------------------
(* Trie *)

(* struct Info *)
Info(done, match) == [done |-> done, match |-> match]

(* The prefix map of a default-constructed Trie *)
EmptyDic == [q \in {} |-> Info(FALSE, FALSE)]

IsPrefixOf(p, t) == Len(p) <= Len(t) /\ SubSeq(t, 1, Len(p)) = p

(* A plausible slip: a pattern that ends at an existing prefix also marks   *)
(* the prefix done.                                                         *)
InsertPrefixDone(d, item, len) ==
    LET last == (len = Len(item))
        sv   == SubSeq(item, 1, len)
    IN  IF sv \notin DOMAIN d THEN d @@ (sv :> Info(last, last))
        ELSE IF last THEN [d EXCEPT ![sv] = Info(TRUE, TRUE)]
        ELSE [d EXCEPT ![sv].done = FALSE]

(* Body of the inner loop of the constructor, for one prefix length *)
InsertPrefix(d, item, len) ==
    LET last == (len = Len(item))
        sv   == SubSeq(item, 1, len)
    IN  IF sv \notin DOMAIN d THEN d @@ (sv :> Info(last, last))
        ELSE IF last THEN [d EXCEPT ![sv].match = TRUE]
        ELSE [d EXCEPT ![sv].done = FALSE]

(* Inner loop of the constructor: len = 1 .. item.size() *)
RECURSIVE InsertItem(_, _, _)
InsertItem(d, item, len) ==
    IF len <= Len(item)
    THEN InsertItem(InsertPrefix(d, item, len), item, len + 1)
    ELSE d

(* A plausible slip: the scan stops at the first match. *)
RECURSIVE MatchLoopFirst(_, _, _, _, _, _)
MatchLoopFirst(d, t, text_len, mlen, done, len) ==
    IF ~done /\ len <= text_len
    THEN LET sv == SubSeq(t, 1, len) IN
         IF sv \notin DOMAIN d
         THEN MatchLoopFirst(d, t, text_len, mlen, TRUE, len + 1)
         ELSE MatchLoopFirst(d, t, text_len,
                             IF d[sv].match THEN len ELSE mlen,
                             IF d[sv].done \/ d[sv].match THEN TRUE ELSE done,
                             len + 1)
    ELSE mlen

match_first(d, t, text_len) == MatchLoopFirst(d, t, text_len, 0, FALSE, 1)

(* The while loop of Trie::match *)
RECURSIVE MatchLoop(_, _, _, _, _, _)
MatchLoop(d, t, text_len, mlen, done, len) ==
    IF ~done /\ len <= text_len
    THEN LET sv == SubSeq(t, 1, len) IN
         IF sv \notin DOMAIN d
         THEN MatchLoop(d, t, text_len, mlen, TRUE, len + 1)
         ELSE MatchLoop(d, t, text_len,
                        IF d[sv].match THEN len ELSE mlen,
                        IF d[sv].done THEN TRUE ELSE done,
                        len + 1)
    ELSE mlen

(* Trie::match(text, text_len) *)
match(d, t, text_len) == MatchLoop(d, t, text_len, 0, FALSE, 1)

TrieBytes == { 97, 98 }
Patterns  == SeqsUpTo(TrieBytes, MaxPatLen)
Texts     == SeqsUpTo(TrieBytes, MaxTextLen)

InitTrie ==
    /\ items \in SeqsUpTo(Patterns, MaxItems)
    /\ nitems = 0
    /\ dic_ = EmptyDic
    /\ text = << >>
    /\ match_len = -1
    /\ CountIdle /\ CodecIdle /\ DecodeIdle /\ EscapeIdle

(* One iteration of the outer loop of the constructor: a whole pattern *)
TrieInsert ==
    /\ nitems < Len(items)
    /\ dic_' = InsertItem(dic_, items[nitems + 1], 1)
    /\ nitems' = nitems + 1
    /\ UNCHANGED << items, text, match_len >>
    /\ UNCHANGED << countVars, codecVars, decodeVars, escapeVars >>

(* A call of match on the constructed Trie *)
TrieMatch ==
    /\ nitems = Len(items)
    /\ match_len = -1
    /\ \E t \in Texts :
        /\ text' = t
        /\ match_len' = match(dic_, t, Len(t))
    /\ UNCHANGED << items, nitems, dic_ >>
    /\ UNCHANGED << countVars, codecVars, decodeVars, escapeVars >>

NextTrie == TrieInsert \/ TrieMatch

SpecTrie == InitTrie /\ [][NextTrie]_vars

SetMax(S) == CHOOSE x \in S : \A y \in S : y <= x

(* The patterns inserted so far *)
Inserted == { items[k] : k \in 1..nitems }

(* C1: match returns the length of the longest pattern that is a prefix of  *)
(* the text, and 0 when no pattern is a prefix of the text.                 *)
C1_LongestMatch ==
    match_len # -1 =>
        match_len = SetMax({0} \cup { Len(items[k]) : k \in
                              { j \in 1..Len(items) : IsPrefixOf(items[j], text) } })

C1_Witness ==
    /\ items = << << 97 >>, << 97, 98 >>, << >> >>
    /\ text = << 97, 98, 97 >> /\ match_len = 2

(* C7: after each whole pattern has been inserted (and so after the last),  *)
(* the keys of the prefix map are exactly the non-empty prefixes of the     *)
(* patterns inserted so far; match(q) holds iff q is one of these patterns  *)
(* and done(q) holds iff none of these patterns strictly extends q.         *)
C7_PrefixMap ==
    /\ DOMAIN dic_ = UNION { { SubSeq(p, 1, n) : n \in 1..Len(p) } : p \in Inserted }
    /\ \A q \in DOMAIN dic_ :
          /\ dic_[q].match <=> q \in Inserted
          /\ dic_[q].done <=> ~ \E p \in Inserted : IsPrefixOf(q, p) /\ p # q

C7_Witness ==
    /\ items = << << 97, 98 >>, << 97 >>, << 97, 98 >> >> /\ nitems = 3
    /\ dic_[<< 97 >>] = Info(FALSE, TRUE)
    /\ dic_[<< 97, 98 >>] = Info(TRUE, TRUE)

----------------------------------------------------------------------------
(* codepoint_count *)

(* The buffer from offset k on: the pointer s8 + k *)
From(s8, k) == SubSeq(s8, k + 1, Len(s8))

CountBytes   == { 65, 128, 195, 226, 240, 255 }
CountBuffers == SeqsUpTo(CountBytes, MaxCountLen)

InitCount ==
    /\ cc_s8 \in CountBuffers
    /\ cc_i = 0
    /\ count = 0
    /\ cc_pc = "loop"
    /\ TrieIdle /\ CodecIdle /\ DecodeIdle /\ EscapeIdle

(* One iteration of the for loop: the body, then the increment expression. *)
(* count is a size_t; the model stops following it at MaxCount.            *)
CountStep ==
    /\ cc_pc = "loop"
    /\ cc_i < Len(cc_s8)
    /\ count < MaxCount
    /\ count' = count + 1
    /\ cc_i' = cc_i + codepoint_length(From(cc_s8, cc_i), Len(cc_s8) - cc_i)
    /\ UNCHANGED << cc_s8, cc_pc >>
    /\ UNCHANGED << trieVars, codecVars, decodeVars, escapeVars >>

(* The loop condition fails: return count *)
CountReturn ==
    /\ cc_pc = "loop"
    /\ ~ (cc_i < Len(cc_s8))
    /\ cc_pc' = "done"
    /\ UNCHANGED << cc_s8, cc_i, count >>
    /\ UNCHANGED << trieVars, codecVars, decodeVars, escapeVars >>

NextCount == CountStep \/ CountReturn

SpecCount == InitCount /\ [][NextCount]_vars

(* C2: on every iteration of the loop of codepoint_count the scan index     *)
(* advances by at least 1 (so the call terminates and a position where      *)
(* codepoint_length returns 0 is counted once).                             *)
C2_ScanAdvances ==
    [][ (cc_pc = "loop" /\ count' # count) => cc_i' >= cc_i + 1 ]_vars

----------------------------------------------------------------------------
(* decode *)

(* A plausible slip: every byte with the high bit set is skipped as a      *)
(* continuation byte.                                                      *)
RECURSIVE SkipContinuationHigh(_, _, _)
SkipContinuationHigh(s8, l, k) ==
    IF k < l /\ BitAnd(s8[k + 1], 128) = 128
    THEN SkipContinuationHigh(s8, l, k + 1)
    ELSE k

(* The inner while loop of decode: the index after the continuation bytes  *)
(* that follow offset k - 1.                                               *)
RECURSIVE SkipContinuation(_, _, _)
SkipContinuation(s8, l, k) ==
    IF k < l /\ BitAnd(s8[k + 1], 192) = 128
    THEN SkipContinuation(s8, l, k + 1)
    ELSE k

DecodeBytes   == { 65, 128, 169, 195, 226, 240, 255 }
DecodeBuffers == SeqsUpTo(DecodeBytes, MaxDecLen)

InitDecode ==
    /\ d_s8 \in DecodeBuffers
    /\ d_i = 0
    /\ out = << >>
    /\ d_pc = "loop"
    /\ TrieIdle /\ CountIdle /\ CodecIdle /\ EscapeIdle

(* One iteration of the outer while loop *)
DecodeStep ==
    /\ d_pc = "loop"
    /\ d_i < Len(d_s8)
    /\ LET beg == d_i
           end == SkipContinuation(d_s8, Len(d_s8), d_i + 1)
       IN  /\ out' = Append(out, decode_codepoint_cp(From(d_s8, beg), end - beg))
           /\ d_i' = end
    /\ UNCHANGED << d_s8, d_pc >>
    /\ UNCHANGED << trieVars, countVars, codecVars, escapeVars >>

(* The loop condition fails: return out *)
DecodeReturn ==
    /\ d_pc = "loop"
    /\ ~ (d_i < Len(d_s8))
    /\ d_pc' = "done"
    /\ UNCHANGED << d_s8, d_i, out >>
    /\ UNCHANGED << trieVars, countVars, codecVars, escapeVars >>

NextDecode == DecodeStep \/ DecodeReturn

SpecDecode == InitDecode /\ [][NextDecode]_vars

(* The call runs on one thread that keeps executing until it returns. *)
FairSpecDecode == SpecDecode /\ WF_vars(NextDecode)

(* Offsets (1-based) at which a unit of the buffer starts: the first byte  *)
(* and every later byte that is not a continuation byte.                   *)
UnitStarts(b) == { k \in 1..Len(b) : k = 1 \/ ~ IsContinuation(b[k]) }

(* The unit that starts at k: up to the byte before the next start *)
UnitAt(b, k) ==
    LET later == { j \in UnitStarts(b) : j > k }
        stop  == IF later = {} THEN Len(b)
                 ELSE (CHOOSE j \in later : \A j2 \in later : j <= j2) - 1
    IN  SubSeq(b, k, stop)

(* The k-th smallest element of a set of numbers *)
Nth(S, k) == CHOOSE x \in S : Cardinality({ y \in S : y <= x }) = k

UnitValue(u) ==
    LET d == decode_codepoint(u, Len(u)) IN IF d.ok THEN d.cp ELSE 0

(* C9: decode terminates, and its output has one element per unit of the    *)
(* buffer, in order: the codepoint decode_codepoint returns for the unit,   *)
(* or 0 when decode_codepoint fails on it.                                  *)
C9_DecodeUnits ==
    /\ <>(d_pc = "done")
    /\ [](d_pc = "done" =>
            /\ Len(out) = Cardinality(UnitStarts(d_s8))
            /\ \A k \in 1..Len(out) :
                  out[k] = UnitValue(UnitAt(d_s8, Nth(UnitStarts(d_s8), k))))

C9_Witness ==
    /\ d_pc = "done" /\ d_s8 = << 128, 195, 169, 128 >>
    /\ out = << 0, 233 >>

----------------------------------------------------------------------------
(* resolve_escape_sequence *)

(* is_hex(c, v): the returned flag and the out-parameter *)
is_hex(c) ==
    IF 48 <= c /\ c <= 57 THEN [ok |-> TRUE, v |-> c - 48]
    ELSE IF 97 <= c /\ c <= 102 THEN [ok |-> TRUE, v |-> c - 97 + 10]
    ELSE IF 65 <= c /\ c <= 70 THEN [ok |-> TRUE, v |-> c - 65 + 10]
    ELSE [ok |-> FALSE, v |-> 0]

(* A plausible slip: only the octal digits 0-7 are accepted. *)
is_digit_octal(c) ==
    IF 48 <= c /\ c <= 55 THEN [ok |-> TRUE, v |-> c - 48]
    ELSE [ok |-> FALSE, v |-> 0]

(* is_digit(c, v): the returned flag and the out-parameter *)
is_digit(c) ==
    IF 48 <= c /\ c <= 57 THEN [ok |-> TRUE, v |-> c - 48]
    ELSE [ok |-> FALSE, v |-> 0]

(* The while loop of parse_hex_number.  ret is an int; the inputs of the   *)
(* model are too short for ret * 16 + val to leave the range of int.       *)
RECURSIVE HexLoop(_, _, _, _)
HexLoop(str, n, k, ret) ==
    IF k < n /\ is_hex(str[k + 1]).ok
    THEN HexLoop(str, n, k + 1, ret * 16 + is_hex(str[k + 1]).v)
    ELSE << ret, k >>

(* parse_hex_number(s, n, i): the pair (ret, i) *)
parse_hex_number(str, n, k) == HexLoop(str, n, k, 0)

(* The while loop of parse_octal_number *)
RECURSIVE OctalLoop(_, _, _, _)
OctalLoop(str, n, k, ret) ==
    IF k < n /\ is_digit(str[k + 1]).ok
    THEN OctalLoop(str, n, k + 1, ret * 8 + is_digit(str[k + 1]).v)
    ELSE << ret, k >>

(* parse_octal_number(s, n, i): the pair (ret, i) *)
parse_octal_number(str, n, k) == OctalLoop(str, n, k, 0)

(* The single-character cases of the switch: f n r t v ' " [ ] \ *)
FixedEscape ==
    (102 :> 12) @@ (110 :> 10) @@ (114 :> 13) @@ (116 :> 9) @@ (118 :> 11) @@
    (39 :> 39) @@ (34 :> 34) @@ (91 :> 91) @@ (93 :> 93) @@ (92 :> 92)

(* A plausible slip: a trailing backslash is copied instead of rejected. *)
EscapeIterLenient(str, n, k, acc) ==
    LET ch == str[k + 1] IN
    IF ch = 92
    THEN LET k1 == k + 1 IN
         IF k1 = n THEN [i |-> k1, r |-> Append(acc, ch), pc |-> "loop"]
         ELSE LET c == str[k1 + 1] IN
              IF c \in DOMAIN FixedEscape
              THEN [i |-> k1 + 1, r |-> Append(acc, FixedEscape[c]), pc |-> "loop"]
              ELSE IF c \in { 120, 117 }
              THEN LET pr == parse_hex_number(str, n, k1 + 1) IN
                   [i |-> pr[2], r |-> acc \o encode_codepoint(pr[1]), pc |-> "loop"]
              ELSE LET pr == parse_octal_number(str, n, k1) IN
                   [i |-> pr[2], r |-> acc \o encode_codepoint(pr[1]), pc |-> "loop"]
    ELSE [i |-> k + 1, r |-> Append(acc, ch), pc |-> "loop"]

(* A plausible slip: an unknown escape character is skipped. *)
EscapeIterSkip(str, n, k, acc) ==
    LET ch == str[k + 1] IN
    IF ch = 92
    THEN LET k1 == k + 1 IN
         IF k1 = n THEN [i |-> k1, r |-> << >>, pc |-> "throw"]
         ELSE LET c == str[k1 + 1] IN
              IF c \in DOMAIN FixedEscape
              THEN [i |-> k1 + 1, r |-> Append(acc, FixedEscape[c]), pc |-> "loop"]
              ELSE IF c \in { 120, 117 }
              THEN LET pr == parse_hex_number(str, n, k1 + 1) IN
                   [i |-> pr[2], r |-> acc \o encode_codepoint(pr[1]), pc |-> "loop"]
              ELSE LET pr == parse_octal_number(str, n, k1) IN
                   [i |-> IF pr[2] = k1 THEN k1 + 1 ELSE pr[2], r |-> acc \o encode_codepoint(pr[1]), pc |-> "loop"]
    ELSE [i |-> k + 1, r |-> Append(acc, ch), pc |-> "loop"]

(* One iteration of the while loop of resolve_escape_sequence at index k   *)
(* with output acc: the new index and output, or the throw, which unwinds  *)
(* the call and destroys the output.                                       *)
EscapeIter(str, n, k, acc) ==
    LET ch == str[k + 1] IN
    IF ch = 92
    THEN LET k1 == k + 1 IN
         IF k1 = n THEN [i |-> k1, r |-> << >>, pc |-> "throw"]
         ELSE LET c == str[k1 + 1] IN
              IF c \in DOMAIN FixedEscape
              THEN [i |-> k1 + 1, r |-> Append(acc, FixedEscape[c]), pc |-> "loop"]
              ELSE IF c \in { 120, 117 }
              THEN LET pr == parse_hex_number(str, n, k1 + 1) IN
                   [i |-> pr[2], r |-> acc \o encode_codepoint(pr[1]), pc |-> "loop"]
              ELSE LET pr == parse_octal_number(str, n, k1) IN
                   [i |-> pr[2], r |-> acc \o encode_codepoint(pr[1]), pc |-> "loop"]
    ELSE [i |-> k + 1, r |-> Append(acc, ch), pc |-> "loop"]

EscBytes == { 92, 110, 120, 117, 48, 49, 56, 102, 113 }

(* Longer inputs: a\nb, \x41, \9, \154000 (= 0xD800), \ud800, \x110000 *)
EscExtra ==
    { << 97, 92, 110, 98 >>, << 92, 120, 52, 49 >>, << 92, 57 >>,
      << 92, 49, 53, 52, 48, 48, 48 >>, << 92, 117, 100, 56, 48, 48 >>,
      << 92, 120, 49, 49, 48, 48, 48, 48 >> }

EscInputs == SeqsUpTo(EscBytes, MaxEscLen) \cup EscExtra

InitEscape ==
    /\ s \in EscInputs
    /\ i = 0
    /\ r = << >>
    /\ pc = "loop"
    /\ TrieIdle /\ CountIdle /\ CodecIdle /\ DecodeIdle

(* One iteration of the while loop *)
EscapeStep ==
    /\ pc = "loop"
    /\ i < Len(s)
    /\ LET st == EscapeIter(s, Len(s), i, r)
       IN  i' = st.i /\ r' = st.r /\ pc' = st.pc
    /\ UNCHANGED s
    /\ UNCHANGED << trieVars, countVars, codecVars, decodeVars >>

(* The loop condition fails: return r *)
EscapeReturn ==
    /\ pc = "loop"
    /\ ~ (i < Len(s))
    /\ pc' = "done"
    /\ UNCHANGED << s, i, r >>
    /\ UNCHANGED << trieVars, countVars, codecVars, decodeVars >>

NextEscape == EscapeStep \/ EscapeReturn

SpecEscape == InitEscape /\ [][NextEscape]_vars

(* The call runs on one thread that keeps executing until it returns or    *)
(* throws.                                                                  *)
FairSpecEscape == SpecEscape /\ WF_vars(NextEscape)

(* Number of backslashes the input ends with *)
TrailingBackslashes(str) ==
    CHOOSE m \in 0..Len(str) :
        /\ \A j \in 0..(m - 1) : str[Len(str) - j] = 92
        /\ (m = Len(str) \/ str[Len(str) - m] # 92)

(* The scan reaches an escape-introducing backslash that is the last       *)
(* character: the backslashes before it pair up, so the input ends with an *)
(* odd number of backslashes.                                              *)
EndsInLoneBackslash(str) == TrailingBackslashes(str) % 2 = 1

(* C4: resolve_escape_sequence terminates on every input; it fails exactly  *)
(* when the scan reaches an escape-introducing backslash that is the last   *)
(* character, then returning no output, and returns a string otherwise.     *)
C4_MalformedEscape ==
    /\ <>(pc \in { "done", "throw" })
    /\ [](pc = "throw" => (EndsInLoneBackslash(s) /\ r = << >>))
    /\ [](pc = "done" => ~ EndsInLoneBackslash(s))

C4_Witness ==
    /\ pc = "throw" /\ s = << 49, 92, 92, 92 >>

IsDecimalDigit(c) == c >= 48 /\ c <= 57

(* Length of the maximal run of decimal digits of str that starts at the   *)
(* 1-based position k                                                      *)
DigitRun(str, k) ==
    CHOOSE m \in 0..(Len(str) - k + 1) :
        /\ \A j \in 0..(m - 1) : IsDecimalDigit(str[k + j])
        /\ (k + m > Len(str) \/ ~ IsDecimalDigit(str[k + m]))

(* v := v * 8 + d folded over the digits, left to right *)
RECURSIVE OctFold(_)
OctFold(ds) ==
    IF ds = << >> THEN 0
    ELSE OctFold(SubSeq(ds, 1, Len(ds) - 1)) * 8 + (ds[Len(ds)] - 48)

(* The scan is at a backslash that is followed by a character *)
AtEscape == pc = "loop" /\ i + 1 < Len(s) /\ s[i + 1] = 92

(* C8: at a backslash followed by a character that is none of              *)
(* f n r t v ' " [ ] \ x u, the iteration consumes the backslash and the    *)
(* maximal run of decimal digits starting at that character and appends     *)
(* encode_codepoint of the value folded with v := v * 8 + d over the        *)
(* digits, 8 and 9 included.                                                *)
C8_OctalEscape ==
    [][ (AtEscape /\ s[i + 2] \notin (DOMAIN FixedEscape \cup { 120, 117 })) =>
          LET m == DigitRun(s, i + 2) IN
          /\ pc' = "loop"
          /\ i' = i + 1 + m
          /\ r' = r \o encode_codepoint(OctFold(SubSeq(s, i + 2, i + 1 + m))) ]_vars

C8_Witness ==
    /\ pc = "done" /\ s = << 92, 49, 56 >> /\ r = << 16 >>

(* C10: a \x or \u not followed by a hex digit consumes those two          *)
(* characters and appends one NUL byte; a backslash followed by a character *)
(* c that is neither a fixed escape, x, u nor a digit consumes only the     *)
(* backslash and appends one NUL byte, and c is then copied as ordinary     *)
(* input, so that \q resolves to NUL followed by q.                         *)
C10_ZeroDigitEscape ==
    /\ [][ (AtEscape /\ s[i + 2] \in { 120, 117 }
             /\ (i + 2 = Len(s) \/ ~ is_hex(s[i + 3]).ok)) =>
              (pc' = "loop" /\ i' = i + 2 /\ r' = r \o << 0 >>) ]_vars
    /\ [][ (AtEscape /\ s[i + 2] \notin (DOMAIN FixedEscape \cup { 120, 117 })
             /\ ~ IsDecimalDigit(s[i + 2])) =>
              (pc' = "loop" /\ i' = i + 1 /\ r' = r \o << 0 >>) ]_vars
    /\ [][ (pc = "loop" /\ i >= 1 /\ i < Len(s) /\ s[i] = 92
             /\ s[i + 1] \notin (DOMAIN FixedEscape \cup { 120, 117 })
             /\ ~ IsDecimalDigit(s[i + 1])) =>
              (pc' = "loop" /\ i' = i + 1 /\ r' = r \o << s[i + 1] >>) ]_vars
    /\ []((pc = "done" /\ s = << 92, 113 >>) => r = << 0, 113 >>)

C10_Witness ==
    /\ pc = "done" /\ s = << 92, 113, 92, 120 >> /\ r = << 0, 113, 0 >>

====
